---- MODULE Spec2Model ----
(***************************************************************************)
(* Model of the spirograph canvas (src/src/components/SpirographCanvas.tsx) *)
(* together with the two pieces of App/ControlsPanel that feed it: the      *)
(* parameter snapshot and the play/pause flag.                              *)
(*                                                                          *)
(* Numbers.  JavaScript doubles are modelled in fixed point:                *)
(*   - an angle is an integer count of AngleUnit = 5e-8 rad, so that the    *)
(*     product  animationSpeed * (timestamp * 0.0005) * 0.1  of animate is  *)
(*     exactly  speedMilli * timestampMs  (animationSpeed in thousandths);  *)
(*   - Sin and Cos return the value times TrigScale (1e4);                  *)
(*   - lengths (radius, pen distance) are whole pixels, the effective       *)
(*     radius is in hundredths of a pixel, a point is in micro-pixels       *)
(*     (hundredths of a pixel times TrigScale);                             *)
(*   - the zoom scale is in thousandths.                                    *)
(***************************************************************************)
EXTENDS Integers, Sequences, FiniteSets, TLC

\* ------------------------------------------------------------------ bounds
\* number of frame callbacks that run
MaxFrames == 3
\* number of user inputs (edits, toggles, wheel, resize, clear, download)
MaxEvents == 2
\* number of wheel events in a row (WheelSpec)
MaxWheel == 8
\* the angles GeomSpec visits: this many steps of pi/60 either side of 0
GeomSteps == 125
\* number of edits in the controls panel (ControlsSpec)
MaxEdits == 4
\* number of eighth-turn strokes ColorSpec draws
ColorSteps == 16

\* ------------------------------------------------------- numeric constants
\* pi/2, pi and 2*pi in angle units of 5e-8 rad (pi/2 rounded to a multiple
\* of 24 so that pi/2, pi/3 and 2*pi are exact multiples, as the doubles
\* Math.PI / 2 and Math.PI * 2 are exact scalings of Math.PI)
HalfPi == 31415928
Pi == 2 * HalfPi
TwoPi == 4 * HalfPi
\* fixed-point scale of Sin and Cos
TrigScale == 10000
\* angle units per 1e-4 rad, the resolution at which Sin and Cos are evaluated
TrigDiv == 2000

\* floor(a * n / d) without forming the product a * n
MulDiv(a, n, d) == (a \div d) * n + ((a % d) * n) \div d

\* sine on [0, pi/4], x in 1e-4 rad: x - x^3/6 + x^5/120 - x^7/5040 (Horner)
SinQ(x) ==
    LET x2 == (x * x) \div TrigScale
        a == TrigScale - x2 \div 42
        b == TrigScale - ((x2 * a) \div TrigScale) \div 20
        c == TrigScale - ((x2 * b) \div TrigScale) \div 6
    IN (x * c) \div TrigScale

\* cosine on [0, pi/4], x in 1e-4 rad: 1 - x^2/2 + x^4/24 - x^6/720 (Horner)
CosQ(x) ==
    LET x2 == (x * x) \div TrigScale
        a == TrigScale - x2 \div 30
        b == TrigScale - ((x2 * a) \div TrigScale) \div 12
    IN TrigScale - ((x2 * b) \div TrigScale) \div 2

\* sine and cosine on the first quadrant, q in angle units, 0 <= q <= HalfPi
SinFirst(q) ==
    IF 2 * q <= HalfPi THEN SinQ(q \div TrigDiv) ELSE CosQ((HalfPi - q) \div TrigDiv)

CosFirst(q) ==
    IF 2 * q <= HalfPi THEN CosQ(q \div TrigDiv) ELSE SinQ((HalfPi - q) \div TrigDiv)

\* Math.sin, times TrigScale, for any integer angle
Sin(angle) ==
    LET n == angle % TwoPi
        k == n \div HalfPi
        q == n % HalfPi
    IN CASE k = 0 -> SinFirst(q)
         [] k = 1 -> CosFirst(q)
         [] k = 2 -> 0 - SinFirst(q)
         [] OTHER -> 0 - CosFirst(q)

\* Math.cos, times TrigScale, for any integer angle
Cos(angle) ==
    LET n == angle % TwoPi
        k == n \div HalfPi
        q == n % HalfPi
    IN CASE k = 0 -> CosFirst(q)
         [] k = 1 -> 0 - SinFirst(q)
         [] k = 2 -> 0 - CosFirst(q)
         [] OTHER -> SinFirst(q)

\* a / d as a fraction times TrigScale, for 0 <= a <= d (angle units)
Frac(a, d) == ((a \div TrigDiv) * TrigScale) \div (d \div TrigDiv)

\* a / d times TrigScale, for a >= 0 and d > 0 (angle units)
Ratio(a, d) == (a \div d) * TrigScale + Frac(a % d, d)

\* Math.sign
Sign(v) == IF v > 0 THEN 1 ELSE IF v < 0 THEN 0 - 1 ELSE 0

\* bisection for Math.atan2(y, x) with y > 0: the angle in [lo, hi] at which
\* y * cos - x * sin changes sign, to the resolution of Sin and Cos
RECURSIVE AtanSearch(_, _, _, _)
AtanSearch(y, x, lo, hi) ==
    IF hi - lo <= TrigDiv THEN lo
    ELSE LET mid == (lo + hi) \div 2
         IN IF y * Cos(mid) - x * Sin(mid) >= 0
            THEN AtanSearch(y, x, mid, hi)
            ELSE AtanSearch(y, x, lo, mid)

\* Math.atan2(y, x) for y >= 0, in angle units
Atan2(y, x) ==
    IF y = 0 THEN (IF x >= 0 THEN 0 ELSE Pi) ELSE AtanSearch(y, x, 0, Pi)

\* ---------------------------------------------------------------- geometry
\* a point, in micro-pixels
Point(px, py) == [x |-> px, y |-> py]

\* getFixedShapeRadius: the effective radius, in hundredths of a pixel
\* (Math.sqrt(2) is 1.4142)
getFixedShapeRadius(fixedShape) ==
    CASE fixedShape.type = "circle" -> fixedShape.params.radius * 100
      [] fixedShape.type = "square" -> (fixedShape.params.edgeLength * 14142) \div 200
      [] fixedShape.type = "star" -> fixedShape.params.outerRadius * 100
      [] fixedShape.type = "hexagon" -> fixedShape.params.sideLength * 100
      [] fixedShape.type = "ellipse" -> fixedShape.params.majorAxis * 50
      [] OTHER -> 0

\* calculatePoint, case 'circle' and default: the point at distance R
CirclePoint(R, angle) == Point(R * Cos(angle), R * Sin(angle))

\* the sharp square with the side taken from the angle as passed in
SquareSharpPoint_Unnormalized(sp, angle) ==
    LET edge == sp.edgeLength * 100
        halfEdge == sp.edgeLength * 50
        side == angle \div HalfPi
        sideProgress == Frac(angle % HalfPi, HalfPi)
    IN CASE side = 0 -> Point(halfEdge * TrigScale, edge * sideProgress - halfEdge * TrigScale)
         [] side = 1 -> Point(halfEdge * TrigScale - edge * sideProgress, halfEdge * TrigScale)
         [] side = 2 -> Point(0 - halfEdge * TrigScale, halfEdge * TrigScale - edge * sideProgress)
         [] OTHER -> Point(edge * sideProgress - halfEdge * TrigScale, 0 - halfEdge * TrigScale)

\* calculatePoint, case 'square' with cornerRadius = 0
SquareSharpPoint(sp, angle) ==
    LET edge == sp.edgeLength * 100
        halfEdge == sp.edgeLength * 50
        normalizedAngle == angle % TwoPi
        side == normalizedAngle \div HalfPi
        sideProgress == Frac(normalizedAngle % HalfPi, HalfPi)
    IN CASE side = 0 -> Point(halfEdge * TrigScale, edge * sideProgress - halfEdge * TrigScale)
         [] side = 1 -> Point(halfEdge * TrigScale - edge * sideProgress, halfEdge * TrigScale)
         [] side = 2 -> Point(0 - halfEdge * TrigScale, halfEdge * TrigScale - edge * sideProgress)
         [] OTHER -> Point(edge * sideProgress - halfEdge * TrigScale, 0 - halfEdge * TrigScale)

\* calculatePoint, case 'square' with cornerRadius > 0
SquareRoundedPoint(sp, angle) ==
    LET halfEdge == sp.edgeLength * 50
        radius == sp.cornerRadius * 100
        inner == (halfEdge - radius) * TrigScale
        straight == sp.edgeLength * 100 - 2 * radius
        normalizedAngle == angle % TwoPi
        cornerAngle == Atan2(sp.cornerRadius * 2, sp.edgeLength - sp.cornerRadius * 2)
        cornerAngleOffset == normalizedAngle - (normalizedAngle \div HalfPi) * HalfPi
    IN CASE normalizedAngle < cornerAngle \/ normalizedAngle >= TwoPi - cornerAngle ->
              Point(inner, straight * Ratio(normalizedAngle, HalfPi) - inner)
         [] normalizedAngle >= cornerAngle /\ normalizedAngle < TwoPi - cornerAngle
              /\ normalizedAngle < HalfPi + cornerAngle ->
              Point(inner - straight * Ratio(normalizedAngle - cornerAngle, HalfPi), inner)
         [] normalizedAngle >= HalfPi + cornerAngle /\ normalizedAngle < TwoPi - cornerAngle
              /\ normalizedAngle < Pi + cornerAngle ->
              Point(0 - inner,
                    inner - straight * Ratio(normalizedAngle - (HalfPi + cornerAngle), HalfPi))
         [] normalizedAngle >= Pi + cornerAngle /\ normalizedAngle < TwoPi - cornerAngle
              /\ normalizedAngle < 3 * HalfPi + cornerAngle ->
              Point(straight * Ratio(normalizedAngle - (Pi + cornerAngle), HalfPi) - inner,
                    0 - inner)
         [] OTHER ->
              Point(Sign(Cos(normalizedAngle)) * inner + radius * Cos(cornerAngleOffset),
                    Sign(Sin(normalizedAngle)) * inner + radius * Sin(cornerAngleOffset))

\* calculatePoint, case 'ellipse'
EllipsePoint(ep, angle) ==
    LET rot == MulDiv(Pi, ep.rotation, 180)
        rotatedAngle == angle - rot
        ex == ep.majorAxis * 50 * Cos(rotatedAngle)
        ey == ep.minorAxis * 50 * Sin(rotatedAngle)
    IN Point(MulDiv(ex, Cos(rot), TrigScale) - MulDiv(ey, Sin(rot), TrigScale),
             MulDiv(ex, Sin(rot), TrigScale) + MulDiv(ey, Cos(rot), TrigScale))

\* the star with every stretch running from outerRadius to innerRadius
StarPoint_NoAlternation(sp, angle) ==
    LET normalizedAngle == angle % TwoPi
        scaled == normalizedAngle * sp.points
        progress == Frac(scaled % Pi, Pi)
        currentRadius == sp.outerRadius * 100
                           + ((sp.innerRadius - sp.outerRadius) * 100 * progress) \div TrigScale
    IN Point(currentRadius * Cos(normalizedAngle), currentRadius * Sin(normalizedAngle))

\* calculatePoint, case 'star'
StarPoint(sp, angle) ==
    LET normalizedAngle == angle % TwoPi
        scaled == normalizedAngle * sp.points
        currentPoint == scaled \div Pi
        progress == Frac(scaled % Pi, Pi)
        radius1 == IF currentPoint % 2 = 0 THEN sp.outerRadius ELSE sp.innerRadius
        radius2 == IF currentPoint % 2 = 0 THEN sp.innerRadius ELSE sp.outerRadius
        currentRadius == radius1 * 100 + ((radius2 - radius1) * 100 * progress) \div TrigScale
    IN Point(currentRadius * Cos(normalizedAngle), currentRadius * Sin(normalizedAngle))

\* calculatePoint, case 'hexagon' with cornerRadius = 0
HexagonSharpPoint(hp, angle) ==
    LET angleStep == Pi \div 3
        normalizedAngle == angle % TwoPi
        currentVertex == normalizedAngle \div angleStep
        progress == Frac(normalizedAngle % angleStep, angleStep)
        angle1 == currentVertex * angleStep
        angle2 == (currentVertex + 1) * angleStep
        x1 == hp.sideLength * 100 * Cos(angle1)
        y1 == hp.sideLength * 100 * Sin(angle1)
        x2 == hp.sideLength * 100 * Cos(angle2)
        y2 == hp.sideLength * 100 * Sin(angle2)
    IN Point(x1 + MulDiv(x2 - x1, progress, TrigScale),
             y1 + MulDiv(y2 - y1, progress, TrigScale))

\* calculatePoint, case 'hexagon' with cornerRadius > 0
HexagonRoundedPoint(hp, angle) ==
    LET angleStep == Pi \div 3
        radius == hp.cornerRadius * 100
        normalizedAngle == angle % TwoPi
        currentVertex == normalizedAngle \div angleStep
        progress == Frac(normalizedAngle % angleStep, angleStep)
        angle1 == currentVertex * angleStep
        angle2 == (currentVertex + 1) * angleStep
        x1 == hp.sideLength * 100 * Cos(angle1)
        y1 == hp.sideLength * 100 * Sin(angle1)
        x2 == hp.sideLength * 100 * Cos(angle2)
        y2 == hp.sideLength * 100 * Sin(angle2)
        cornerAngle == Atan2(hp.cornerRadius, hp.sideLength)
        cornerShare == Frac(cornerAngle, angleStep)
    IN CASE progress < cornerShare ->
              LET cornerProgress == (progress * TrigScale) \div cornerShare
                  turn == angle1 + MulDiv(HalfPi, cornerProgress, TrigScale)
              IN Point(x1 - radius * Cos(angle1 - HalfPi) + radius * Cos(turn),
                       y1 - radius * Sin(angle1 - HalfPi) + radius * Sin(turn))
         [] progress >= cornerShare /\ progress > TrigScale - cornerShare ->
              LET cornerProgress ==
                      ((progress - TrigScale + cornerShare) * TrigScale) \div cornerShare
                  turn == angle2 - MulDiv(HalfPi, TrigScale - cornerProgress, TrigScale)
              IN Point(x2 - radius * Cos(angle2 + HalfPi) + radius * Cos(turn),
                       y2 - radius * Sin(angle2 + HalfPi) + radius * Sin(turn))
         [] OTHER ->
              LET edgeProgress ==
                      ((progress - cornerShare) * TrigScale) \div (TrigScale - 2 * cornerShare)
              IN Point(x1 + MulDiv(x2 - x1, edgeProgress, TrigScale),
                       y1 + MulDiv(y2 - y1, edgeProgress, TrigScale))

\* the switch of calculatePoint: the point of the guide boundary at an angle
BoundaryPoint(fixedShape, angle) ==
    CASE fixedShape.type = "circle" ->
           CirclePoint(getFixedShapeRadius(fixedShape), angle)
      [] fixedShape.type = "square" /\ fixedShape.params.cornerRadius = 0 ->
           SquareSharpPoint(fixedShape.params, angle)
      [] fixedShape.type = "square" /\ fixedShape.params.cornerRadius > 0 ->
           SquareRoundedPoint(fixedShape.params, angle)
      [] fixedShape.type = "ellipse" -> EllipsePoint(fixedShape.params, angle)
      [] fixedShape.type = "star" -> StarPoint(fixedShape.params, angle)
      [] fixedShape.type = "hexagon" /\ fixedShape.params.cornerRadius = 0 ->
           HexagonSharpPoint(fixedShape.params, angle)
      [] fixedShape.type = "hexagon" /\ fixedShape.params.cornerRadius > 0 ->
           HexagonRoundedPoint(fixedShape.params, angle)
      [] fixedShape.type \notin {"circle", "square", "ellipse", "star", "hexagon"} ->
           CirclePoint(getFixedShapeRadius(fixedShape), angle)

\* the point { x: NaN, y: NaN }
NaNPoint == [nan |-> TRUE]

\* Number.isFinite of both coordinates of a point
IsFinite(pt) == DOMAIN pt = {"x", "y"}

\* the pen turning in the same sense as the rolling circle
PenPoint_SameSense(base, R, movingRadius, penDistance, angle) ==
    IF movingRadius = 0 THEN NaNPoint
    ELSE
    LET penAngle == MulDiv(angle, R - movingRadius * 100, movingRadius * 100)
    IN Point(base.x - movingRadius * 100 * Cos(angle) + penDistance * 10 * Cos(penAngle),
             base.y - movingRadius * 100 * Sin(angle) + penDistance * 10 * Sin(penAngle))

\* the end of calculatePoint: the pen position relative to the boundary point.
\* With movingRadius = 0 the quotient (R - 0) / 0 is Infinity or NaN, so is
\* penAngle, and Math.cos and Math.sin of it are NaN: both coordinates are NaN.
PenPoint(base, R, movingRadius, penDistance, angle) ==
    IF movingRadius = 0 THEN NaNPoint
    ELSE
    LET penAngle == MulDiv(angle, R - movingRadius * 100, movingRadius * 100)
    IN Point(base.x - movingRadius * 100 * Cos(angle) + penDistance * 10 * Cos(penAngle),
             base.y - movingRadius * 100 * Sin(angle) - penDistance * 10 * Sin(penAngle))

\* calculatePoint: the pen point of a parameter snapshot at an angle
calculatePoint(p, angle) ==
    PenPoint(BoundaryPoint(p.fixedShape, angle), getFixedShapeRadius(p.fixedShape),
             p.movingShape.params.radius, p.penDistance, angle)

\* ------------------------------------------------------------------ colour
\* a JavaScript value that is either a colour string or a GradientColor
ColorString(c) == [isString |-> TRUE, str |-> c, colors |-> <<>>]

\* a GradientColor value: its stops, each a colour string (a sequence of
\* characters) and a position in units of 1 / TrigScale
Gradient(stops) == [isString |-> FALSE, str |-> "", colors |-> stops]

\* the digits of Number.prototype.toString(16)
HexDigits == <<"0", "1", "2", "3", "4", "5", "6", "7", "8", "9",
               "a", "b", "c", "d", "e", "f">>

\* the capital letters parseInt(_, 16) reads as digits too
HexCapitals == [A |-> 10, B |-> 11, C |-> 12, D |-> 13, E |-> 14, F |-> 15]

\* the value of one hexadecimal digit
HexValue(ch) ==
    IF ch \in DOMAIN HexCapitals THEN HexCapitals[ch]
    ELSE (CHOOSE i \in 1..16 : HexDigits[i] = ch) - 1

\* parseInt(str.slice(from, from + 2), 16) of a colour string '#rrggbb'
\* (from counted from 0, as slice does)
ParseChannel(str, from) == 16 * HexValue(str[from + 1]) + HexValue(str[from + 2])

\* n.toString(16) for an integer n: no leading zeros, a minus sign when n < 0
RECURSIVE ToHex(_)
ToHex(n) ==
    IF n < 0 THEN <<"-">> \o ToHex(0 - n)
    ELSE IF n < 16 THEN <<HexDigits[n + 1]>>
    ELSE ToHex(n \div 16) \o <<HexDigits[(n % 16) + 1]>>

\* n.toString(16).padStart(2, '0')
HexChannel(n) == IF Len(ToHex(n)) < 2 THEN <<"0">> \o ToHex(n) ELSE ToHex(n)

\* Math.round(c1 + (c2 - c1) * t) for t = num / den, den > 0: the nearest
\* integer, a half rounded up
Interpolate(c1, c2, num, den) == (2 * c1 * den + 2 * (c2 - c1) * num + den) \div (2 * den)

\* the loop of getColorFromGradient: the first pair of neighbouring stops
\* that has progress between its positions, the first pair when none has
StartIndex(colors, progress) ==
    LET hits == {i \in 1..(Len(colors) - 1) :
                   progress >= colors[i].position /\ progress <= colors[i + 1].position}
    IN IF hits = {} THEN 1 ELSE CHOOSE i \in hits : \A j \in hits : i <= j

\* getColorFromGradient
getColorFromGradient(color, progress) ==
    IF color.isString THEN color.str
    ELSE IF Len(color.colors) = 1 THEN color.colors[1].color
    ELSE
    LET colors == color.colors
        startIndex == StartIndex(colors, progress)
        color1 == colors[startIndex].color
        color2 == colors[startIndex + 1].color
        num == progress - colors[startIndex].position
        den == colors[startIndex + 1].position - colors[startIndex].position
        r == Interpolate(ParseChannel(color1, 1), ParseChannel(color2, 1), num, den)
        g == Interpolate(ParseChannel(color1, 3), ParseChannel(color2, 3), num, den)
        b == Interpolate(ParseChannel(color1, 5), ParseChannel(color2, 5), num, den)
    IN <<"#">> \o HexChannel(r) \o HexChannel(g) \o HexChannel(b)

\* --------------------------------------------------------------- parameters
\* FIXED_SHAPE_DEFAULTS
FIXED_SHAPE_DEFAULTS ==
    [circle |-> [type |-> "circle", params |-> [radius |-> 200]],
     square |-> [type |-> "square", params |-> [edgeLength |-> 200, cornerRadius |-> 0]],
     star |-> [type |-> "star",
               params |-> [outerRadius |-> 200, innerRadius |-> 100, points |-> 5]],
     hexagon |-> [type |-> "hexagon", params |-> [sideLength |-> 200, cornerRadius |-> 0]],
     ellipse |-> [type |-> "ellipse",
                  params |-> [majorAxis |-> 200, minorAxis |-> 100, rotation |-> 0]]]

\* the entries of the shape select of the controls panel
ShapeTypes == {"circle", "square", "star", "hexagon", "ellipse"}

\* DEFAULT_PARAMS, with the pen colour and background colour fields that the
\* canvas and the controls panel read.  penDistance is in tenths of a pixel
\* and animationSpeed in thousandths.
DEFAULT_PARAMS ==
    [fixedShape |-> FIXED_SHAPE_DEFAULTS.circle,
     movingShape |-> [type |-> "circle", params |-> [radius |-> 50]],
     penDistance |-> 5,
     animationSpeed |-> 1000,
     lineWidth |-> 2,
     penColor |-> [type |-> "solid", value |-> ColorString("#000000")],
     backgroundColor |-> "#ffffff"]

\* slider positions the model tries: animation speed 0.051 (thousandths),
\* moving radius, pen distance (tenths), guide radius
SpeedValues == {51}
MovingRadiusValues == {40}
PenDistanceValues == {750}
RadiusValues == {150}
BackgroundValues == {"#102030"}

\* container sizes <<clientWidth, clientHeight>> the resize observer reports
Sizes == {<<800, 600>>, <<400, 300>>}

\* time between two display refreshes, ms
FrameIntervals == {500}

\* -------------------------------------------------------------------- state
VARIABLES
    params,        \* App state: the parameter snapshot of the latest render
    isPlaying,     \* App state: the play/pause flag
    showGuides,    \* the showGuides prop
    scale,         \* useState scale, thousandths
    mounted,       \* the component is mounted
    contextRef,    \* contextRef.current and overlayContextRef.current are set
    effectsLive,   \* the effects of the last render await their cleanup
    committed,     \* the props and state the effects last ran with
    angleRef,      \* angleRef.current, angle units
    lastPointRef,  \* lastPointRef.current: <<>> for null, <<point>> otherwise
    requestRef,    \* requestRef.current: 0 for undefined, else a callback id
    rafQueue,      \* callbacks requestAnimationFrame holds, with their closure
    nextId,        \* the id the next requestAnimationFrame returns
    size,          \* <<width, height>> of both canvases
    trace,         \* the main canvas: the fill and the ink drawn over it
    overlay,       \* the overlay canvas: the ink drawn on it
    now,           \* the clock, ms
    events,        \* number of user inputs so far
    lastOp,        \* history: name of the last operation
    frame,         \* history: the last completed frame
    prevFrameTs,   \* history: timestamps of the frames since start or resume
    segs,          \* history: the segments emitted since the last clear
    lastPointType, \* history: shape type lastPointRef was computed with
    teardownMark   \* history: value of nextId at the last effect cleanup

vars == <<params, isPlaying, showGuides, scale, mounted, contextRef, effectsLive,
          committed, angleRef,
          lastPointRef, requestRef, rafQueue, nextId, size, trace, overlay, now,
          events, lastOp, frame, prevFrameTs, segs, lastPointType, teardownMark>>

\* null of lastPointRef
Null == <<>>

\* the 2D transform of a context: translation (pixels), scale (thousandths)
\* and rotation (degrees)
Xf(tx, ty, sc, rot) == [tx |-> tx, ty |-> ty, scale |-> sc, rot |-> rot]

\* the transform resizeCanvas leaves on both contexts: translate to the centre
BaseXf(sz) == Xf(sz[1] \div 2, sz[2] \div 2, 1000, 0)

\* the transform animate draws with: the base transform, translated to the
\* centre again and scaled
FrameXf(sz, sc) == Xf(sz[1] \div 2 + sz[1] \div 2, sz[2] \div 2 + sz[2] \div 2, sc, 0)

\* drawFixedShape: one stroke of the guide outline
drawFixedShape(fixedShape, xf) ==
    <<[kind |-> "fixedShape", shape |-> fixedShape, xf |-> xf]>>

\* drawMovingCircle: the moving circle, the pen marker and the pen line
drawMovingCircle(p, currentAngle, xf) ==
    LET movingRadius == p.movingShape.params.radius
        R == getFixedShapeRadius(p.fixedShape)
        centerX == (R - movingRadius * 100) * Cos(currentAngle)
        centerY == (R - movingRadius * 100) * Sin(currentAngle)
        pen == IF movingRadius = 0 THEN NaNPoint
               ELSE LET penAngle == MulDiv(currentAngle, R - movingRadius * 100,
                                           movingRadius * 100)
                    IN Point(centerX + p.penDistance * 10 * Cos(penAngle),
                             centerY - p.penDistance * 10 * Sin(penAngle))
    IN <<[kind |-> "movingCircle", center |-> Point(centerX, centerY),
          radius |-> movingRadius, xf |-> xf],
         [kind |-> "penMarker", at |-> pen, xf |-> xf],
         [kind |-> "penLine", from |-> Point(centerX, centerY), to |-> pen, xf |-> xf]>>

\* the number Infinity: what a positive number divided by 0 gives
Infinity == 2147483647

\* the initial scale resizeCanvas computes: 40% of the smaller side over the
\* guide's diameter
initialScale(p, sz) ==
    LET maxDimension == IF sz[1] < sz[2] THEN sz[1] ELSE sz[2]
        fixedShapeRadius == getFixedShapeRadius(p.fixedShape)
    IN IF fixedShapeRadius = 0 THEN Infinity
       ELSE (maxDimension * 40000) \div (fixedShapeRadius * 2)

\* what resizeCanvas leaves on the main canvas: setting canvas.width drops
\* every pixel, then the whole canvas is filled white
ResizedTrace == [fill |-> "#ffffff", ink |-> <<>>]

\* the closure of one render: what the effects and animate read
Closure == [params |-> params, isPlaying |-> isPlaying, scale |-> scale,
            showGuides |-> showGuides]

\* a canvas element before anything sized or painted it: 300 by 150 pixels,
\* transparent
BlankSize == <<300, 150>>
BlankTrace == [fill |-> "transparent", ink |-> <<>>]

\* the state after the first render of the component with props p in a
\* container of size sz, and its effects.  When getContext gave both contexts the setup effect has sized
\* and filled the canvases and asked for the initial scale, and the animation
\* effect (rendered with scale 1) has requested the first frame.  When
\* getContext returned null both effects returned at once: nothing is sized,
\* no listener is attached and no frame is requested.
Mount(p, sz, hasContext) ==
    /\ params = p
    /\ isPlaying = TRUE
    /\ showGuides = TRUE
    /\ contextRef = hasContext
    /\ effectsLive = TRUE
    /\ size = IF hasContext THEN sz ELSE BlankSize
    /\ scale = IF hasContext THEN initialScale(p, sz) ELSE 1000
    /\ mounted = TRUE
    /\ committed = [params |-> p, isPlaying |-> TRUE, scale |-> 1000,
                    showGuides |-> TRUE]
    /\ angleRef = 0
    /\ lastPointRef = Null
    /\ requestRef = IF hasContext THEN 1 ELSE 0
    /\ rafQueue = IF hasContext THEN {[id |-> 1, closure |-> committed]} ELSE {}
    /\ nextId = IF hasContext THEN 2 ELSE 1
    /\ trace = IF hasContext THEN ResizedTrace ELSE BlankTrace
    /\ overlay = <<>>
    /\ now = 0
    /\ events = 0
    /\ lastOp = "init"
    /\ frame = [n |-> 0, id |-> 0]
    /\ prevFrameTs = <<>>
    /\ segs = <<>>
    /\ lastPointType = "none"
    /\ teardownMark = 0

\* Init: App mounts the canvas with DEFAULT_PARAMS
Init == \E hasContext \in BOOLEAN : Mount(DEFAULT_PARAMS, <<800, 600>>, hasContext)

\* ------------------------------------------------------------------ animate
\* the number of sub-steps rounded down instead of up
Steps_Floor(animationSpeed) ==
    LET c == (animationSpeed * 20) \div 1000
    IN IF c < 1 THEN 1 ELSE c

\* steps = Math.max(1, Math.ceil(animationSpeed * 20))
Steps(animationSpeed) ==
    LET c == (animationSpeed * 20 + 999) \div 1000
    IN IF c < 1 THEN 1 ELSE c

\* the angle step taken backwards
AngleStep_Backwards(animationSpeed, timestamp) == 0 - animationSpeed * timestamp

\* animationSpeed * (timestamp * 0.0005) * 0.1, in angle units
AngleStep(animationSpeed, timestamp) == animationSpeed * timestamp

\* mutant of InterpolatedAngle: the sub-steps lag one behind, so the last
\* stroke stops short of the next angle
InterpolatedAngle_Lagging(currentAngle, step, i, steps) ==
    currentAngle + (step * (i - 1)) \div steps

\* interpolatedAngle of sub-step i: currentAngle + step * (i / steps)
InterpolatedAngle(currentAngle, step, i, steps) == currentAngle + (step * i) \div steps

\* colorProgress = (interpolatedAngle % (2 * pi)) / (2 * pi), times TrigScale
ColorProgress(interpolatedAngle) == Frac(interpolatedAngle % TwoPi, TwoPi)

\* mutant of NewPoint: the point at the angle before the step
NewPoint_AtOldAngle(p, currentAngle, nextAngle) == calculatePoint(p, currentAngle)

\* the point animate stores in lastPointRef: calculatePoint(nextAngle)
NewPoint(p, currentAngle, nextAngle) == calculatePoint(p, nextAngle)

\* the strokes of one frame: from lastPoint through every interpolated point;
\* fromType, toType and frame record the guide shape each end was computed
\* with and the callback that drew the stroke
FrameSegments(p, lastPoint, currentAngle, step, fromType, id) ==
    LET steps == Steps(p.animationSpeed)
    IN [i \in 1..steps |->
          [from |-> IF i = 1 THEN lastPoint
                    ELSE calculatePoint(p, InterpolatedAngle(currentAngle, step, i - 1, steps)),
           to |-> calculatePoint(p, InterpolatedAngle(currentAngle, step, i, steps)),
           color |-> getColorFromGradient(p.penColor.value,
                       ColorProgress(InterpolatedAngle(currentAngle, step, i, steps))),
           lineWidth |-> p.lineWidth,
           fromType |-> IF i = 1 THEN fromType ELSE p.fixedShape.type,
           toType |-> p.fixedShape.type,
           frame |-> id]]

\* a stroke as ink on a canvas
SegmentInk(sg, xf) ==
    [kind |-> "segment", from |-> sg.from, to |-> sg.to, color |-> sg.color,
     lineWidth |-> sg.lineWidth, xf |-> xf]

\* the red centre dot animate draws on the main canvas, identity transform
DebugInk(sz) ==
    [kind |-> "debug", at |-> <<sz[1] \div 2, sz[2] \div 2>>, color |-> "red"]

\* mutant of HasContext: the handler goes on without looking at its refs
HasContext_Unchecked(context, canvas) == TRUE

\* the guard that opens animate and clearCanvas: the context and the canvas
\* the handler needs are both there
HasContext(context, canvas) == context /\ canvas

\* no frame is requested, whatever isPlaying is
ShouldRequest_Never(playing) == FALSE

\* mutant of ShouldRequest: a frame is requested whatever isPlaying is
ShouldRequest_Always(playing) == TRUE

\* the condition on which animate and the animation effect request a frame
ShouldRequest(playing) == playing

\* animate(timestamp): the callback c of the queue runs dt ms after the
\* previous display refresh
animate(c, dt) ==
    LET p == c.closure.params
        timestamp == now + dt
        xf == FrameXf(size, c.closure.scale)
        currentAngle == angleRef
        step == AngleStep(p.animationSpeed, timestamp)
        nextAngle == currentAngle + step
    IN
    /\ c \in rafQueue
    /\ frame.n < MaxFrames
    /\ now' = now + dt
    /\ IF ~HasContext(contextRef, mounted)
       THEN \* a context or the overlay canvas is null: return before drawing
            \* or rescheduling
            /\ rafQueue' = rafQueue \ {c}
            /\ lastOp' = "animateNoCanvas"
            /\ UNCHANGED <<angleRef, lastPointRef, requestRef, nextId, trace,
                           overlay, frame, prevFrameTs, segs, lastPointType>>
       ELSE /\ overlay' = IF c.closure.showGuides
                          THEN drawFixedShape(p.fixedShape, xf)
                               \o drawMovingCircle(p, angleRef, xf)
                          ELSE <<>>
            /\ segs' = IF lastPointRef # Null
                       THEN segs \o FrameSegments(p, lastPointRef[1], currentAngle,
                                                  step, lastPointType, c.id)
                       ELSE segs
            /\ trace' = [trace EXCEPT !.ink =
                           @ \o <<DebugInk(size)>>
                             \o [i \in 1..(Len(segs') - Len(segs)) |->
                                   SegmentInk(segs'[Len(segs) + i], xf)]]
            /\ lastPointRef' = <<NewPoint(p, currentAngle, nextAngle)>>
            /\ angleRef' = nextAngle
            /\ IF ShouldRequest(c.closure.isPlaying)
               THEN /\ requestRef' = nextId
                    /\ rafQueue' = (rafQueue \ {c}) \cup
                                     {[id |-> nextId, closure |-> c.closure]}
                    /\ nextId' = nextId + 1
               ELSE /\ rafQueue' = rafQueue \ {c}
                    /\ UNCHANGED <<requestRef, nextId>>
            /\ lastOp' = "animate"
            /\ frame' = [n |-> frame.n + 1, id |-> c.id, timestamp |-> timestamp,
                         params |-> p, before |-> currentAngle, after |-> nextAngle,
                         elapsed |-> IF prevFrameTs = <<>> THEN 0
                                     ELSE timestamp - prevFrameTs[1],
                         penDown |-> lastPointRef # Null,
                         emitted |-> Len(segs') - Len(segs)]
            /\ prevFrameTs' = <<timestamp>>
            /\ lastPointType' = p.fixedShape.type
    /\ UNCHANGED <<params, isPlaying, showGuides, scale, mounted, contextRef,
                   effectsLive, committed, size, events, teardownMark>>

\* --------------------------------------------------------------- clearCanvas
\* the transform clearCanvas draws the guides with: the context's own
\* transform, rotated for an ellipse
ClearXf(p, sz) ==
    IF p.fixedShape.type = "ellipse"
    THEN Xf(sz[1] \div 2, sz[2] \div 2, 1000, p.fixedShape.params.rotation)
    ELSE BaseXf(sz)

\* mutant of ClearedTrace: the guides are drawn without wiping the canvas
ClearedTrace_NoWipe(tr, p, guides, angle, sz) ==
    [fill |-> p.backgroundColor,
     ink |-> tr.ink \o (IF guides
                        THEN drawFixedShape(p.fixedShape, ClearXf(p, sz))
                             \o drawMovingCircle(p, angle, ClearXf(p, sz))
                        ELSE <<>>)]

\* the main canvas after clearCanvas: clearRect and fillRect over the whole
\* canvas, then the guides drawn on the same context when enabled
ClearedTrace(tr, p, guides, angle, sz) ==
    [fill |-> p.backgroundColor,
     ink |-> IF guides
             THEN drawFixedShape(p.fixedShape, ClearXf(p, sz))
                  \o drawMovingCircle(p, angle, ClearXf(p, sz))
             ELSE <<>>]

\* mutant of ClearedAngle: clearCanvas restarts the curve at angle 0
ClearedAngle_Reset(angle) == 0

\* "Reset drawing state but keep angle for continuous drawing"
ClearedAngle(angle) == angle

\* the values of lastOp after clearCanvas: the second names a call that
\* directly follows another call
ClearOps == {"clearCanvas", "clearCanvasAgain"}

\* clearCanvas(), reached through the ref by the reset button
clearCanvas ==
    /\ mounted
    /\ Closure = committed
    /\ events < MaxEvents
    /\ events' = events + 1
    /\ IF ~HasContext(contextRef, mounted)
       THEN \* the canvas or its context is null: return
            /\ lastOp' = "clearCanvasNoContext"
            /\ UNCHANGED <<trace, lastPointRef, angleRef, segs,
                           lastPointType>>
       ELSE /\ trace' = ClearedTrace(trace, params, showGuides, angleRef, size)
            /\ lastPointRef' = Null
            /\ angleRef' = ClearedAngle(angleRef)
            /\ lastOp' = IF lastOp \in ClearOps THEN "clearCanvasAgain" ELSE "clearCanvas"
            /\ segs' = <<>>
            /\ lastPointType' = "none"
    /\ UNCHANGED <<params, isPlaying, showGuides, scale, mounted, contextRef,
                   effectsLive, committed, requestRef, rafQueue, nextId, size,
                   overlay, now, frame, prevFrameTs, teardownMark>>

\* downloadImage(): serialises the main canvas, changes nothing
downloadImage ==
    /\ mounted
    /\ Closure = committed
    /\ events < MaxEvents
    /\ events' = events + 1
    /\ lastOp' = "downloadImage"
    /\ UNCHANGED <<contextRef, effectsLive, params, isPlaying, showGuides,
                   scale, mounted, committed, angleRef, lastPointRef,
                   requestRef, rafQueue, nextId, size, trace, overlay, now,
                   frame, prevFrameTs, segs, lastPointType, teardownMark>>

\* ------------------------------------------------------ setup effect handlers
\* resizeCanvas as the ResizeObserver calls it: both canvases are resized,
\* the main canvas is filled white and the initial scale is set again
resizeCanvas(sz) ==
    /\ mounted
    /\ contextRef
    /\ Closure = committed
    /\ events < MaxEvents
    /\ events' = events + 1
    /\ size' = sz
    /\ trace' = ResizedTrace
    /\ overlay' = <<>>
    /\ scale' = initialScale(committed.params, sz)
    /\ lastOp' = "resizeCanvas"
    /\ UNCHANGED <<contextRef, effectsLive, params, isPlaying, showGuides,
                   mounted, committed, angleRef, lastPointRef, requestRef,
                   rafQueue, nextId, now, frame, prevFrameTs, segs,
                   lastPointType, teardownMark>>

\* mutant of WheelScale: the factor is applied without the clamp
WheelScale_Unclamped(prev, deltaY) ==
    IF deltaY > 0 THEN (prev * 9) \div 10 ELSE (prev * 11) \div 10

\* Math.max(0.1, Math.min(10, prev * scaleFactor)), thousandths
WheelScale(prev, deltaY) ==
    LET scaled == IF deltaY > 0 THEN (prev * 9) \div 10 ELSE (prev * 11) \div 10
        capped == IF scaled > 10000 THEN 10000 ELSE scaled
    IN IF capped < 100 THEN 100 ELSE capped

\* handleWheel
handleWheel(deltaY) ==
    /\ mounted
    /\ contextRef
    /\ Closure = committed
    /\ events < MaxEvents
    /\ events' = events + 1
    /\ scale' = WheelScale(scale, deltaY)
    /\ lastOp' = "handleWheel"
    /\ UNCHANGED <<contextRef, effectsLive, params, isPlaying, showGuides,
                   mounted, committed, angleRef, lastPointRef, requestRef,
                   rafQueue, nextId, size, trace, overlay, now, frame,
                   prevFrameTs, segs, lastPointType, teardownMark>>

\* handleWheel for a wheel event that arrives before React has rendered the
\* previous one: each setScale(prev => ...) updater is applied to the result
\* of the one before it
handleWheelRepeated(deltaY) ==
    /\ mounted
    /\ contextRef
    /\ events < MaxWheel
    /\ events' = events + 1
    /\ scale' = WheelScale(scale, deltaY)
    /\ lastOp' = "handleWheel"
    /\ UNCHANGED <<params, isPlaying, showGuides, mounted, contextRef,
                   effectsLive, committed, angleRef, lastPointRef, requestRef,
                   rafQueue, nextId, size, trace, overlay, now, frame,
                   prevFrameTs, segs, lastPointType, teardownMark>>

\* ------------------------------------------------------- App / ControlsPanel
\* onParamsChange(newParams): setParams of App; every control fires only
\* when its value changes
onParamsChange(newParams, op) ==
    /\ mounted
    /\ Closure = committed
    /\ events < MaxEvents
    /\ newParams # params
    /\ events' = events + 1
    /\ params' = newParams
    /\ lastOp' = op
    /\ UNCHANGED <<contextRef, effectsLive, isPlaying, showGuides, scale,
                   mounted, committed, angleRef, lastPointRef, requestRef,
                   rafQueue, nextId, size, trace, overlay, now, frame,
                   prevFrameTs, segs, lastPointType, teardownMark>>

\* the parameter snapshot handleShapeTypeChange passes on: the guide is
\* replaced by the defaults of the new type
ShapeTypeChanged(p, newType) == [p EXCEPT !.fixedShape = FIXED_SHAPE_DEFAULTS[newType]]

\* handleShapeTypeChange
handleShapeTypeChange(newType) ==
    onParamsChange(ShapeTypeChanged(params, newType), "handleShapeTypeChange")

\* renderShapeControls: the sliders shown for each guide type
ShapeSliders ==
    [circle |-> {"radius"},
     square |-> {"edgeLength", "cornerRadius"},
     star |-> {"outerRadius", "innerRadius", "points"},
     hexagon |-> {"sideLength", "cornerRadius"},
     ellipse |-> {"majorAxis", "minorAxis", "rotation"}]

\* renderShapeControls: min and max of each slider
SliderEnds ==
    [radius |-> {50, 300}, edgeLength |-> {50, 300}, cornerRadius |-> {0, 50},
     outerRadius |-> {100, 300}, innerRadius |-> {50, 150}, points |-> {3, 12},
     sideLength |-> {50, 400}, majorAxis |-> {100, 400}, minorAxis |-> {50, 300},
     rotation |-> {0, 360}]

\* the parameter snapshot handleShapeParamChange passes on: one parameter of
\* the current guide replaced, nothing else looked at
ShapeParamChanged(p, param, value) == [p EXCEPT !.fixedShape.params[param] = value]

\* handleShapeParamChange(param, value), from a slider of the current guide
handleShapeParamChange(param, value) ==
    /\ params.fixedShape.type \in ShapeTypes
    /\ param \in ShapeSliders[params.fixedShape.type]
    /\ onParamsChange(ShapeParamChanged(params, param, value), "handleShapeParamChange")

\* handleMovingCircleChange('radius')
handleMovingCircleChange(value) ==
    onParamsChange([params EXCEPT !.movingShape.params.radius = value],
                   "handleMovingCircleChange")

\* handleSliderChange(param) for penDistance and animationSpeed
handleSliderChange(param, value) ==
    onParamsChange([params EXCEPT ![param] = value], "handleSliderChange")

\* handleBackgroundColorChange
handleBackgroundColorChange(value) ==
    onParamsChange([params EXCEPT !.backgroundColor = value],
                   "handleBackgroundColorChange")

\* onPlayPause: setIsPlaying(!isPlaying)
onPlayPause ==
    /\ mounted
    /\ Closure = committed
    /\ events < MaxEvents
    /\ events' = events + 1
    /\ isPlaying' = ~isPlaying
    /\ lastOp' = "onPlayPause"
    /\ UNCHANGED <<contextRef, effectsLive, params, showGuides, scale,
                   mounted, committed, angleRef, lastPointRef, requestRef,
                   rafQueue, nextId, size, trace, overlay, now, frame,
                   prevFrameTs, segs, lastPointType, teardownMark>>

\* onShowGuidesChange
onShowGuidesChange ==
    /\ mounted
    /\ Closure = committed
    /\ events < MaxEvents
    /\ events' = events + 1
    /\ showGuides' = ~showGuides
    /\ lastOp' = "onShowGuidesChange"
    /\ UNCHANGED <<contextRef, effectsLive, params, isPlaying, scale, mounted,
                   committed, angleRef, lastPointRef, requestRef, rafQueue,
                   nextId, size, trace, overlay, now, frame, prevFrameTs,
                   segs, lastPointType, teardownMark>>

\* ------------------------------------------------------------------ effects
\* mutant of cancelAnimationFrame: the callback stays in the queue
cancelAnimationFrame_Noop(queue, id) == queue

\* cancelAnimationFrame(id)
cancelAnimationFrame(queue, id) == {c \in queue : c.id # id}

\* a cleanup that cancels nothing
Cleanup_Skipped(queue, request) == queue

\* the cleanup of the animation effect: cancel requestRef.current when set
Cleanup(queue, request) ==
    IF request # 0 THEN cancelAnimationFrame(queue, request) ELSE queue

\* React flushes the effects of the latest render: the cleanups of the
\* effects whose dependencies changed, then the setup effect when params
\* changed (it calls resizeCanvas), then the animation effect
commitEffects ==
    LET paramsChanged == params # committed.params
        cleaned == Cleanup(rafQueue, requestRef)
        start == ShouldRequest(isPlaying)
    IN
    /\ mounted
    /\ Closure # committed
    /\ committed' = Closure
    /\ IF ~contextRef
       THEN \* neither effect got past its first lines last time, so there is
            \* no cleanup to run, and neither does now
            UNCHANGED <<teardownMark, trace, overlay, scale, requestRef, rafQueue,
                        nextId>>
       ELSE /\ teardownMark' = nextId
            /\ IF paramsChanged
               THEN /\ trace' = ResizedTrace
                    /\ overlay' = <<>>
                    /\ scale' = initialScale(params, size)
               ELSE UNCHANGED <<trace, overlay, scale>>
            /\ IF start
               THEN /\ requestRef' = nextId
                    /\ rafQueue' = cleaned \cup {[id |-> nextId, closure |-> Closure]}
                    /\ nextId' = nextId + 1
               ELSE /\ rafQueue' = cleaned
                    /\ UNCHANGED <<requestRef, nextId>>
    /\ prevFrameTs' = IF isPlaying /\ ~committed.isPlaying THEN <<>> ELSE prevFrameTs
    /\ lastOp' = "commitEffects"
    /\ UNCHANGED <<contextRef, effectsLive, params, isPlaying, showGuides,
                   mounted, angleRef, lastPointRef, size, now, events, frame,
                   segs, lastPointType>>

\* unmount: React removes the component and sets both canvas refs to null;
\* the cleanups of its effects run afterwards (unmountEffects)
unmount ==
    /\ mounted
    /\ Closure = committed
    /\ events < MaxEvents
    /\ events' = events + 1
    /\ mounted' = FALSE
    /\ lastOp' = "unmount"
    /\ UNCHANGED <<contextRef, effectsLive, params, isPlaying, showGuides,
                   scale, committed, angleRef, lastPointRef, requestRef,
                   rafQueue, nextId, size, trace, overlay, now, frame,
                   prevFrameTs, segs, lastPointType, teardownMark>>

\* the effect cleanups of the unmounted component: the pending frame is
\* cancelled (when the animation effect got as far as returning a cleanup)
unmountEffects ==
    /\ ~mounted
    /\ effectsLive
    /\ effectsLive' = FALSE
    /\ IF contextRef
       THEN /\ rafQueue' = Cleanup(rafQueue, requestRef)
            /\ teardownMark' = nextId
       ELSE UNCHANGED <<rafQueue, teardownMark>>
    /\ lastOp' = "unmountEffects"
    /\ UNCHANGED <<contextRef, params, isPlaying, showGuides, scale, mounted,
                   committed, angleRef, lastPointRef, requestRef, nextId,
                   size, trace, overlay, now, events, frame, prevFrameTs,
                   segs, lastPointType>>

\* ------------------------------------------------------------ specification
Next ==
    \/ \E c \in rafQueue, dt \in FrameIntervals : animate(c, dt)
    \/ clearCanvas
    \/ downloadImage
    \/ \E sz \in Sizes : resizeCanvas(sz)
    \/ \E deltaY \in {-100, 100} : handleWheel(deltaY)
    \/ \E newType \in ShapeTypes : handleShapeTypeChange(newType)
    \/ \E value \in RadiusValues : handleShapeParamChange("radius", value)
    \/ \E value \in MovingRadiusValues : handleMovingCircleChange(value)
    \/ \E value \in PenDistanceValues : handleSliderChange("penDistance", value)
    \/ \E value \in SpeedValues : handleSliderChange("animationSpeed", value)
    \/ \E value \in BackgroundValues : handleBackgroundColorChange(value)
    \/ onPlayPause
    \/ onShowGuidesChange
    \/ commitEffects
    \/ unmount
    \/ unmountEffects

Spec == Init /\ [][Next]_vars

\* the browser runs a requested frame callback at the next display refresh
runFrame == \E c \in rafQueue, dt \in FrameIntervals : animate(c, dt)

\* what bears on the loop: frames, play/pause, an edit of the speed, clear(),
\* the effects of a render and the unmount
LoopNext ==
    \/ runFrame
    \/ onPlayPause
    \/ \E value \in SpeedValues : handleSliderChange("animationSpeed", value)
    \/ clearCanvas
    \/ commitEffects
    \/ unmount
    \/ unmountEffects

\* the loop under a browser that runs every requested frame and a React that
\* runs the effects of every render
LiveSpec == Init /\ [][LoopNext]_vars /\ WF_vars(runFrame) /\ WF_vars(commitEffects)

\* ------------------------------------------------ a malformed params prop
\* a parameter snapshot with movingShape.params.radius = 0, which the radius
\* slider (min 10) never produces but the params prop admits
ZeroRadiusParams == [DEFAULT_PARAMS EXCEPT !.movingShape.params.radius = 0]

ZeroRadiusInit == Mount(ZeroRadiusParams, <<800, 600>>, TRUE)

\* the canvas mounted with a zero moving radius
ZeroRadiusSpec == ZeroRadiusInit /\ [][Next]_vars

\* --------------------------------------------- calculatePoint on its own
\* guide shapes: the five defaults, a second circle, rounded corners, a turned
\* ellipse, stars of 3 and 12 points, and the two shapes of the older
\* FixedShape type that calculatePoint has no case for
GeomShapes ==
    {FIXED_SHAPE_DEFAULTS[t] : t \in ShapeTypes} \cup
    {[type |-> "circle", params |-> [radius |-> 150]],
     [type |-> "square", params |-> [edgeLength |-> 200, cornerRadius |-> 20]],
     [type |-> "hexagon", params |-> [sideLength |-> 200, cornerRadius |-> 20]],
     [type |-> "ellipse", params |-> [majorAxis |-> 300, minorAxis |-> 100, rotation |-> 30]],
     [type |-> "star", params |-> [outerRadius |-> 300, innerRadius |-> 50, points |-> 3]],
     [type |-> "star", params |-> [outerRadius |-> 100, innerRadius |-> 150, points |-> 12]],
     [type |-> "triangle", params |-> [sideLength |-> 200, cornerRadius |-> 0]],
     [type |-> "triangle", params |-> [sideLength |-> 100, cornerRadius |-> 10]],
     [type |-> "oval", params |-> [majorAxis |-> 200, minorAxis |-> 100, rotation |-> 0]]}

\* parameter snapshots: every guide shape with the moving radius 50 and the
\* pen distance 75 of the spec's example
GeomParams ==
    {[DEFAULT_PARAMS EXCEPT !.fixedShape = sh, !.penDistance = 750] : sh \in GeomShapes}

\* the step between two angles GeomSpec visits: pi/60
GeomGrain == Pi \div 60

GeomInit == \E p \in GeomParams : Mount(p, <<800, 600>>, TRUE)

\* the last two assignments of animate for an angle step of either sign:
\* lastPointRef.current = calculatePoint(nextAngle); angleRef.current = nextAngle
calculatePointAt(step) ==
    LET nextAngle == angleRef + step
    IN /\ nextAngle >= 0 - GeomSteps * GeomGrain
       /\ nextAngle <= GeomSteps * GeomGrain
       /\ lastPointRef' = <<calculatePoint(params, nextAngle)>>
       /\ angleRef' = nextAngle
       /\ lastPointType' = params.fixedShape.type
       /\ lastOp' = "calculatePoint"
       /\ UNCHANGED <<params, isPlaying, showGuides, scale, mounted, contextRef,
                      effectsLive, committed, requestRef, rafQueue, nextId, size,
                      trace, overlay, now, events, frame, prevFrameTs, segs,
                      teardownMark>>

GeomNext == \E step \in {GeomGrain, 0 - GeomGrain} : calculatePointAt(step)

\* calculatePoint of every guide shape over two turns of angle
GeomSpec == GeomInit /\ [][GeomNext]_vars

\* ------------------------------------------- the controls panel on its own
\* one edit of the guide in the controls panel: App stores the new snapshot
\* and the panel renders again with it
guideEdit(newParams, op) ==
    /\ events < MaxEdits
    /\ newParams # params
    /\ events' = events + 1
    /\ params' = newParams
    /\ lastOp' = op
    /\ UNCHANGED <<isPlaying, showGuides, scale, mounted, contextRef, effectsLive,
                   committed, angleRef, lastPointRef, requestRef, rafQueue, nextId,
                   size, trace, overlay, now, frame, prevFrameTs, segs,
                   lastPointType, teardownMark>>

ControlsNext ==
    \/ \E newType \in ShapeTypes :
          guideEdit(ShapeTypeChanged(params, newType), "handleShapeTypeChange")
    \/ \E param \in ShapeSliders[params.fixedShape.type] :
          \E value \in SliderEnds[param] :
             guideEdit(ShapeParamChanged(params, param, value), "handleShapeParamChange")

\* the guide descriptors the shape select and the sliders can produce
ControlsSpec == Init /\ [][ControlsNext]_vars

\* ------------------------------------------------- stroke colours on their own
\* a colour string '#rrggbb' as its characters
Hex(c1, c2, c3, c4, c5, c6) == <<"#", c1, c2, c3, c4, c5, c6>>

\* a gradient stop
Stop(color, position) == [color |-> color, position |-> position]

\* GRADIENT_PRESETS[0] and GRADIENT_PRESETS[2], positions in 1 / TrigScale
GRADIENT_PRESETS ==
    <<Gradient(<<Stop(Hex("F", "F", "8", "C", "4", "2"), 0),
                 Stop(Hex("F", "F", "5", "7", "3", "3"), 3300),
                 Stop(Hex("C", "7", "0", "0", "3", "9"), 6600),
                 Stop(Hex("9", "0", "0", "C", "3", "F"), 10000)>>),
      Gradient(<<Stop(Hex("F", "F", "0", "0", "0", "0"), 0),
                 Stop(Hex("F", "F", "F", "F", "0", "0"), 3300),
                 Stop(Hex("F", "F", "0", "0", "F", "F"), 6600),
                 Stop(Hex("F", "F", "0", "0", "0", "0"), 10000)>>)>>

\* pen colours: the default solid colour, a picked solid colour, the
\* presets, a one-stop gradient, a two-stop gradient over [0, 1], and
\* gradients whose stops start after 0 or end before 1
PenColorValues ==
    {ColorString("#000000"), ColorString("#336699"),
     GRADIENT_PRESETS[1], GRADIENT_PRESETS[2],
     Gradient(<<Stop(Hex("0", "0", "f", "f", "0", "0"), 5000)>>),
     Gradient(<<Stop(Hex("0", "0", "0", "0", "0", "0"), 0),
                Stop(Hex("f", "f", "f", "f", "f", "f"), 10000)>>),
     Gradient(<<Stop(Hex("1", "0", "1", "0", "1", "0"), 5000),
                Stop(Hex("c", "8", "c", "8", "c", "8"), 10000)>>),
     Gradient(<<Stop(Hex("1", "0", "2", "0", "3", "0"), 0),
                Stop(Hex("4", "0", "5", "0", "6", "0"), 2500),
                Stop(Hex("7", "0", "8", "0", "9", "0"), 5000)>>)}

PenColorParams ==
    {[DEFAULT_PARAMS EXCEPT !.penColor =
         [type |-> IF v.isString THEN "solid" ELSE "gradient", value |-> v]] :
       v \in PenColorValues}

ColorInit == \E p \in PenColorParams : Mount(p, <<800, 600>>, TRUE)

\* the drawing part of animate for an angle step of one eighth of a turn:
\* the strokes from lastPoint (the point at the current angle on the first
\* call), each with its strokeStyle, then the new lastPoint and angle
strokeFrame ==
    LET step == TwoPi \div 8
        lastPoint == IF lastPointRef = Null THEN calculatePoint(params, angleRef)
                     ELSE lastPointRef[1]
    IN /\ events < ColorSteps
       /\ events' = events + 1
       /\ segs' = FrameSegments(params, lastPoint, angleRef, step,
                                params.fixedShape.type, events + 1)
       /\ lastPointRef' = <<NewPoint(params, angleRef, angleRef + step)>>
       /\ angleRef' = angleRef + step
       /\ lastPointType' = params.fixedShape.type
       /\ lastOp' = "strokeFrame"
       /\ UNCHANGED <<params, isPlaying, showGuides, scale, mounted, contextRef,
                      effectsLive, committed, requestRef, rafQueue, nextId, size,
                      trace, overlay, now, frame, prevFrameTs, teardownMark>>

ColorNext == strokeFrame

\* the colours of the strokes of two turns, for every pen colour
ColorSpec == ColorInit /\ [][ColorNext]_vars

\* ------------------------------------------------ the frames on their own
\* animation speeds of the params prop: 0 (below the slider's 0.001), 0.051
\* and the slider's maximum 1
FrameSpeeds == {0, 51, 1000}

FrameParams ==
    {[p EXCEPT !.animationSpeed = v] : p \in PenColorParams, v \in FrameSpeeds}

FrameInit == \E p \in FrameParams : Mount(p, <<800, 600>>, TRUE)

FrameNext ==
    \/ \E c \in rafQueue, dt \in FrameIntervals : animate(c, dt)
    \/ clearCanvas
    \/ commitEffects

\* frames, clear() and the effects of the initial zoom, for every pen colour
\* and animation speed
FrameSpec == FrameInit /\ [][FrameNext]_vars

\* ------------------------------------- the DEFAULT_PARAMS of the sources
\* DEFAULT_PARAMS of src/types.ts, the module App imports (speed in
\* thousandths)
DEFAULT_PARAMS_types ==
    [fixedShape |-> [type |-> "circle", params |-> [radius |-> 150]],
     r |-> 50,
     d |-> 75,
     speed |-> 20,
     lineWidth |-> 2,
     color |-> [type |-> "solid", name |-> "Default", colors |-> <<"#00ff00">>]]

\* DEFAULT_PARAMS of the later types module (penDistance in tenths,
\* animationSpeed in thousandths)
DEFAULT_PARAMS_part_003 ==
    [fixedShape |-> FIXED_SHAPE_DEFAULTS.circle,
     movingShape |-> [type |-> "circle", params |-> [radius |-> 50]],
     penDistance |-> 5,
     animationSpeed |-> 1000,
     lineWidth |-> 2,
     color |-> "#000000"]

\* the first property read of a frame that throws a TypeError: movingShape
\* .params in drawMovingCircle and calculatePoint, penColor.value in the
\* stroke loop, which runs when lastPoint is set
MissingField(p, penDown) ==
    IF "movingShape" \notin DOMAIN p THEN "movingShape"
    ELSE IF penDown /\ "penColor" \notin DOMAIN p THEN "penColor"
    ELSE "none"

\* time between two display refreshes at 60 and 30 Hz, ms
DefaultIntervals == {16, 17, 33}

DefaultsInit ==
    \E p \in {DEFAULT_PARAMS_types, DEFAULT_PARAMS_part_003}, sz \in Sizes :
        Mount(p, sz, TRUE)

\* animate(timestamp) on a params object that may lack fields: the callback
\* throws at the first read of a property of undefined, after the overlay
\* was cleared, the debug dot drawn and the guides drawn up to that read, and
\* before lastPoint, the angle and the next request
animateDefaults(c, dt) ==
    LET p == c.closure.params
        xf == FrameXf(size, c.closure.scale)
        missing == MissingField(p, lastPointRef # Null)
    IN IF missing = "none" THEN animate(c, dt)
       ELSE /\ c \in rafQueue
            /\ now' = now + dt
            /\ rafQueue' = rafQueue \ {c}
            /\ overlay' = IF ~c.closure.showGuides THEN <<>>
                          ELSE IF missing = "movingShape"
                          THEN drawFixedShape(p.fixedShape, xf)
                          ELSE drawFixedShape(p.fixedShape, xf)
                               \o drawMovingCircle(p, angleRef, xf)
            /\ trace' = [trace EXCEPT !.ink = @ \o <<DebugInk(size)>>]
            /\ lastOp' = "animateThrew"
            /\ UNCHANGED <<params, isPlaying, showGuides, scale, mounted,
                           contextRef, effectsLive, committed, angleRef,
                           lastPointRef, requestRef, nextId, size, events, frame,
                           prevFrameTs, segs, lastPointType, teardownMark>>

DefaultsNext ==
    \/ \E c \in rafQueue, dt \in DefaultIntervals : animateDefaults(c, dt)
    \/ commitEffects

\* the canvas mounted by App with the DEFAULT_PARAMS of the sources, playing,
\* with no input
DefaultsSpec == DefaultsInit /\ [][DefaultsNext]_vars

\* ---------------------------------------------------- wheel zoom on its own
\* container sizes that give initial scales of 0.02, 0.6, 3, 9 and 11
WheelSizes == {<<20, 20>>, <<800, 600>>, <<4000, 3000>>, <<12000, 9000>>,
               <<12000, 11000>>}

\* deltaY of a wheel event: up, none, down
WheelDeltas == {-100, 0, 100}

WheelInit == \E sz \in WheelSizes : Mount(DEFAULT_PARAMS, sz, TRUE)

WheelNext == \E deltaY \in WheelDeltas : handleWheelRepeated(deltaY)

\* the canvas under wheel events alone, from any container size
WheelSpec == WheelInit /\ [][WheelNext]_vars

\* ------------------------------------------------------------------- claims
\* the segment strokes among the ink of a canvas
SegmentsOf(ink) == {i \in 1..Len(ink) : ink[i].kind = "segment"}

\* C1: with no clear() in between, the segments emitted over any sequence of
\* frames form one connected polyline: every segment starts where the
\* previous one ended (the first of a frame at the lastPoint the previous
\* frame left) and the last one ends at the point stored as lastPoint.
C1_ConnectedPolyline ==
    /\ \A i \in 1..(Len(segs) - 1) : segs[i + 1].from = segs[i].to
    /\ (segs # <<>> /\ lastPointRef # Null) => segs[Len(segs)].to = lastPointRef[1]

\* C1 witness: two different frames have drawn since the last clear
C1_TwoFramesDrew ==
    /\ lastOp = "animate"
    /\ Len(segs) > 1
    /\ segs[1].frame # segs[Len(segs)].frame

\* C2: the angle a frame adds is animationSpeed times the time elapsed since
\* the previous frame times a constant, zero for the first frame after start
\* or resume.
C2_StepFromElapsedTime ==
    [][lastOp' = "animate" =>
         angleRef' - angleRef = AngleStep(frame'.params.animationSpeed, frame'.elapsed)]_vars

\* C3: after every completed frame lastPoint is the pen point of that frame's
\* configuration at the updated angle.
C3_LastPointAtNewAngle ==
    lastOp = "animate" =>
        /\ angleRef = frame.after
        /\ frame.after = frame.before
                           + AngleStep(frame.params.animationSpeed, frame.timestamp)
        /\ lastPointRef = <<calculatePoint(frame.params, frame.after)>>

\* C3 witness: a frame has completed and the pen point at the angle before
\* the step is a different point
C3_FrameMovedThePen ==
    /\ lastOp = "animate"
    /\ frame.after > frame.before
    /\ lastPointRef # <<calculatePoint(frame.params, frame.before)>>

\* C4: clear() sets lastPoint to null and leaves cumulativeAngle unchanged,
\* while Running and while Stopped.
C4_ClearKeepsAngle ==
    [][(lastOp' \in ClearOps) =>
         lastPointRef' = Null /\ angleRef' = angleRef]_vars

\* C4 witness: clear() was called while Stopped, after frames had advanced
\* the angle
C4_ClearedWhileStopped ==
    /\ lastOp = "clearCanvas"
    /\ ~committed.isPlaying
    /\ angleRef > 0
    /\ lastPointRef = Null

\* C5: a second clear() directly after a clear() leaves the trace surface,
\* lastPoint and cumulativeAngle as the first call left them.
C5_ClearIdempotent ==
    [][(lastOp' = "clearCanvasAgain" /\ lastOp \in ClearOps) =>
         trace' = trace /\ lastPointRef' = lastPointRef /\ angleRef' = angleRef]_vars

\* C5 witness: clear() was called twice in a row on a canvas with guides
C5_ClearedTwice ==
    /\ lastOp = "clearCanvasAgain"
    /\ trace.ink # <<>>

\* C6: no segment is drawn from a pen point of one guide shape type to a pen
\* point of another.
C6_NoSegmentAcrossShapes ==
    \A i \in 1..Len(segs) : segs[i].fromType = segs[i].toType

\* C7: pausing and resuming leave cumulativeAngle and lastPoint as they
\* were, no frame callback is pending while Stopped, and a frame draws from
\* the lastPoint it finds.
C7_PauseResumeKeepsState ==
    [][/\ lastOp' \in {"onPlayPause", "commitEffects"} =>
            angleRef' = angleRef /\ lastPointRef' = lastPointRef
       /\ (mounted' /\ ~committed'.isPlaying) => rafQueue' = {}
       /\ (lastOp' = "animate" /\ Len(segs') > Len(segs)) =>
            segs'[Len(segs) + 1].from = lastPointRef[1]]_vars

\* C7 witness: the first frame after a resume drew from the retained point
C7_DrewAfterResume ==
    /\ lastOp = "animate"
    /\ frame.elapsed = 0
    /\ frame.penDown
    /\ frame.emitted > 0

\* C8: after a teardown no callback requested before it is pending or runs,
\* and a cleanup that finds nothing pending changes nothing.
C8_TeardownCancels ==
    [][/\ \A c \in rafQueue' : c.id >= teardownMark'
       /\ lastOp' \in {"animate", "animateNoCanvas"} =>
            \A c \in rafQueue \ rafQueue' : c.id >= teardownMark
       /\ (lastOp' = "unmountEffects" /\ ~committed.isPlaying) =>
            /\ rafQueue' = rafQueue
            /\ requestRef' = requestRef
            /\ angleRef' = angleRef
            /\ lastPointRef' = lastPointRef
            /\ trace' = trace]_vars

\* C8 witness: the component was unmounted after a pause had already torn
\* the loop down
C8_CleanupRanTwice ==
    /\ lastOp = "unmountEffects"
    /\ ~committed.isPlaying
    /\ frame.n > 0
    /\ requestRef # 0

\* C9: only clear() (or a shape-type change) removes trace ink: every other
\* step keeps every segment already on the trace surface.
C9_InkKeptExceptByClear ==
    [][(/\ lastOp' \notin ClearOps
        /\ ~(lastOp' = "commitEffects"
             /\ params.fixedShape.type # committed.params.fixedShape.type)) =>
         \A i \in SegmentsOf(trace.ink) :
             \E j \in SegmentsOf(trace'.ink) : trace'.ink[j] = trace.ink[i]]_vars

\* C10: no guide, moving circle, pen marker or debug ink is ever on the
\* persistent trace surface.
C10_OnlySegmentsOnTrace ==
    \A i \in 1..Len(trace.ink) : trace.ink[i].kind = "segment"

\* C11: after every wheel event the scale lies in [0.1, 10], whatever the
\* scale before it was: the event multiplied it by 0.9 (deltaY > 0) or by 1.1
\* (any other deltaY) and the product was clamped.
C11_WheelScaleClamped ==
    [][lastOp' = "handleWheel" /\ events' = events + 1 =>
          /\ scale' >= 100 /\ scale' <= 10000
          /\ \E f \in {9, 11} :
                LET product == (scale * f) \div 10
                IN scale' = IF product < 100 THEN 100
                            ELSE IF product > 10000 THEN 10000 ELSE product]_vars

\* C11 witness: a run of wheel events that started outside [0.1, 10] and
\* has hit a clamp
C11_ZoomHitTheClamp ==
    /\ lastOp = "handleWheel"
    /\ events >= 3
    /\ scale \in {100, 10000}
    /\ initialScale(params, size) \notin 100..10000

\* C12: a frame that runs with movingRadius = 0 emits no segment, stores no
\* non-finite lastPoint and, while playing, leaves the next frame requested.
C12_ZeroRadiusGuarded ==
    lastOp = "animate" /\ frame.params.movingShape.params.radius = 0 =>
        /\ frame.emitted = 0
        /\ lastPointRef # Null => IsFinite(lastPointRef[1])
        /\ committed.isPlaying /\ Closure = committed =>
               \E c \in rafQueue : c.id = requestRef

\* C13: a call of clearCanvas or a frame callback that finds its canvas or
\* its context null returns at once: cumulativeAngle, lastPoint and both
\* surfaces are what they were, and the call is recorded as a plain return.
C13_NoContextNoOp ==
    [][(\/ events' = events + 1 /\ lastOp' \in ClearOps \cup {"clearCanvasNoContext"}
        \/ now' # now)
       /\ ~(contextRef /\ mounted)
       => /\ UNCHANGED <<angleRef, lastPointRef, trace, overlay>>
          /\ lastOp' \in {"clearCanvasNoContext", "animateNoCanvas"}]_vars

\* C13 witness: a frame callback that was still queued when the component was
\* removed has run against the null canvas refs, after earlier frames drew
C13_FrameFoundNoCanvas ==
    /\ lastOp = "animateNoCanvas"
    /\ ~mounted
    /\ frame.n > 0
    /\ lastPointRef # Null

\* C14: for a shape type calculatePoint has no case for, the effective radius
\* is one default radius greater than 0, the same whatever the parameters
\* are, and the boundary point is the point of the circle of that radius.
C14_UnknownShapeDefaultCircle ==
    lastOp = "calculatePoint" /\ params.fixedShape.type \notin ShapeTypes =>
        /\ getFixedShapeRadius(params.fixedShape) > 0
        /\ \A sh \in GeomShapes :
              sh.type \notin ShapeTypes =>
                 getFixedShapeRadius(sh) = getFixedShapeRadius(params.fixedShape)
        /\ BoundaryPoint(params.fixedShape, angleRef) =
              CirclePoint(getFixedShapeRadius(params.fixedShape), angleRef)

\* C15: every guide descriptor the controls can produce is well formed:
\* cornerRadius is at most half the edge (square) or side (hexagon) length,
\* innerRadius < outerRadius, at least 3 points, every length positive.
C15_GuideWellFormed ==
    LET g == params.fixedShape.params
    IN CASE params.fixedShape.type = "circle" -> g.radius > 0
         [] params.fixedShape.type = "square" ->
              g.edgeLength > 0 /\ g.cornerRadius >= 0 /\ 2 * g.cornerRadius <= g.edgeLength
         [] params.fixedShape.type = "hexagon" ->
              g.sideLength > 0 /\ g.cornerRadius >= 0 /\ 2 * g.cornerRadius <= g.sideLength
         [] params.fixedShape.type = "star" ->
              g.innerRadius > 0 /\ g.innerRadius < g.outerRadius /\ g.points >= 3
         [] params.fixedShape.type = "ellipse" -> g.majorAxis > 0 /\ g.minorAxis > 0
         [] OTHER -> TRUE

\* a colour string with its capital hexadecimal letters made small
Lower(str) ==
    [i \in DOMAIN str |->
        IF str[i] \in DOMAIN HexCapitals THEN HexDigits[HexCapitals[str[i]] + 1]
        ELSE str[i]]

\* C16: a gradient resolves to its first stop's colour at progress 0 and to
\* its last stop's colour at progress 1; a solid colour and a one-stop
\* gradient resolve to the same colour at every progress.
C16_GradientEnds ==
    LET v == params.penColor.value
        last == segs[Len(segs)]
    IN lastOp = "strokeFrame" =>
         IF v.isString \/ Len(v.colors) = 1
         THEN \A i \in 1..Len(segs) : segs[i].color = getColorFromGradient(v, 0)
         ELSE /\ ColorProgress(angleRef) = 0 => last.color = Lower(v.colors[1].color)
              /\ getColorFromGradient(v, TrigScale) = Lower(v.colors[Len(v.colors)].color)

\* C17: the boundary point is periodic in the angle with period 2*pi, for
\* every guide shape and every angle, positive or negative: the point at the
\* angle calculatePoint was called with is the point one turn later and the
\* point one turn earlier
C17_BoundaryPeriodic ==
    lastOp = "calculatePoint" =>
      /\ BoundaryPoint(params.fixedShape, angleRef + TwoPi)
           = BoundaryPoint(params.fixedShape, angleRef)
      /\ BoundaryPoint(params.fixedShape, angleRef - TwoPi)
           = BoundaryPoint(params.fixedShape, angleRef)

\* calculatePoint ran at a negative angle on the third side of a sharp square
C17_NegativeAngleOnSquare ==
    /\ lastOp = "calculatePoint"
    /\ angleRef < 0 - Pi
    /\ angleRef > 0 - 3 * HalfPi
    /\ params.fixedShape.type = "square"
    /\ params.fixedShape.params.cornerRadius = 0
    /\ BoundaryPoint(params.fixedShape, angleRef).y = params.fixedShape.params.edgeLength * 50 * TrigScale

\* |a|
Abs(a) == IF a < 0 THEN 0 - a ELSE a

\* two points less than tol hundredths of a pixel apart in each coordinate
Near(p, q, tol) ==
    /\ Abs(p.x - q.x) <= tol * TrigScale
    /\ Abs(p.y - q.y) <= tol * TrigScale

\* the radius of spoke k of a star: outerRadius for even k, innerRadius for odd
SpokeRadius(sp, k) == IF k % 2 = 0 THEN sp.outerRadius ELSE sp.innerRadius

\* C18: on a star guide the boundary point at the spoke angle k*pi/points is
\* at distance outerRadius for even k and innerRadius for odd k, in the
\* direction of the angle (so (outerRadius, 0) at angle 0), and between two
\* spokes its distance is the linear interpolation of the two spoke radii.
\* The angle is n*pi/60, so it is a spoke angle when 60 divides n*points.
C18_StarSpokes ==
    LET sp == params.fixedShape.params
        n == angleRef \div GeomGrain
        k == (n * sp.points) \div 60
        part == (n * sp.points) % 60
        between == SpokeRadius(sp, k) * 100
                     + ((SpokeRadius(sp, k + 1) - SpokeRadius(sp, k)) * 100 * part) \div 60
    IN lastOp = "calculatePoint" /\ params.fixedShape.type = "star" =>
         /\ part = 0 =>
               BoundaryPoint(params.fixedShape, angleRef)
                 = CirclePoint(SpokeRadius(sp, k) * 100, angleRef)
         /\ angleRef = 0 =>
               BoundaryPoint(params.fixedShape, angleRef)
                 = Point(sp.outerRadius * 100 * TrigScale, 0)
         /\ Near(BoundaryPoint(params.fixedShape, angleRef),
                 CirclePoint(between, angleRef), 5)

\* calculatePoint ran at an inner spoke of a star, at a negative angle
C18_AtAnInnerSpoke ==
    LET sp == params.fixedShape.params
        n == angleRef \div GeomGrain
    IN /\ lastOp = "calculatePoint"
       /\ params.fixedShape.type = "star"
       /\ angleRef < 0
       /\ (n * sp.points) % 60 = 0
       /\ ((n * sp.points) \div 60) % 2 = 1
       /\ BoundaryPoint(params.fixedShape, angleRef)
            = CirclePoint(sp.innerRadius * 100, angleRef)

\* the hypotrochoid point of a fixed circle of radius R, a rolling circle of
\* radius r and a pen at distance d from its centre, at angle theta (R and r
\* in hundredths of a pixel, d in tenths, the point in micro-pixels)
Hypotrochoid(R, r, d, theta) ==
    LET ratioAngle == MulDiv(theta, R - r, r)
    IN Point((R - r) * Cos(theta) + d * 10 * Cos(ratioAngle),
             (R - r) * Sin(theta) - d * 10 * Sin(ratioAngle))

\* C19: for a circle guide of radius R, a moving radius r > 0 and a pen
\* distance d, the pen point calculatePoint returns at angle theta is the
\* hypotrochoid point ((R-r)cos(theta) + d cos(((R-r)/r) theta),
\* (R-r)sin(theta) - d sin(((R-r)/r) theta))
C19_CirclePenIsHypotrochoid ==
    lastOp = "calculatePoint" /\ params.fixedShape.type = "circle" =>
      lastPointRef = <<Hypotrochoid(params.fixedShape.params.radius * 100,
                                    params.movingShape.params.radius * 100,
                                    params.penDistance, angleRef)>>

\* calculatePoint ran on a circle guide at an angle where the pen is off the
\* line through the two centres, and returned the hypotrochoid point
C19_PenOffTheAxis ==
    LET R == params.fixedShape.params.radius * 100
        r == params.movingShape.params.radius * 100
    IN /\ lastOp = "calculatePoint"
       /\ params.fixedShape.type = "circle"
       /\ angleRef < 0
       /\ Sin(MulDiv(angleRef, R - r, r)) > 0
       /\ lastPointRef = <<Hypotrochoid(R, r, params.penDistance, angleRef)>>

\* the strokes the last frame added to the drawing
FrameStrokes == [i \in 1..frame.emitted |-> segs[Len(segs) - frame.emitted + i]]

\* C20: a frame that finds lastPoint non-null draws exactly
\* max(1, ceil(animationSpeed * 20)) segments, segment i ending at the pen
\* point of the sub-angle cumulativeAngle + angleDelta * i / steps and coloured
\* by the resolver at (subAngle mod 2*pi) / (2*pi); a frame that finds
\* lastPoint null draws no segment and stores lastPoint
C20_FrameSubdivision ==
    LET p == frame.params
        want == CHOOSE c \in 1..(p.animationSpeed + 1) :
                  /\ c * 1000 >= p.animationSpeed * 20
                  /\ c = 1 \/ (c - 1) * 1000 < p.animationSpeed * 20
        subAngle(i) == frame.before + ((frame.after - frame.before) * i) \div want
    IN lastOp = "animate" =>
         IF frame.penDown
         THEN /\ frame.emitted = want
              /\ \A i \in 1..frame.emitted :
                   /\ FrameStrokes[i].to = calculatePoint(p, subAngle(i))
                   /\ FrameStrokes[i].color
                        = getColorFromGradient(p.penColor.value,
                                               Frac(subAngle(i) % TwoPi, TwoPi))
         ELSE /\ frame.emitted = 0
              /\ lastPointRef = <<calculatePoint(p, frame.after)>>

\* a frame drew twenty strokes of a gradient pen, the last in another colour
\* than the first
C20_GradientFrameDrew ==
    /\ lastOp = "animate"
    /\ frame.penDown
    /\ frame.emitted = 20
    /\ ~frame.params.penColor.value.isString
    /\ FrameStrokes[1].color # FrameStrokes[20].color

\* C21: while the canvas is mounted and isPlaying is true the loop keeps
\* ticking: after a frame callback has returned, early or not, a next frame
\* callback is pending, and a frame runs again unless the canvas is paused or
\* unmounted first (up to the MaxFrames frames the model follows)
C21_LoopKeepsTicking ==
    /\ [](lastOp \in {"animate", "animateNoCanvas"} /\ mounted /\ isPlaying
            => rafQueue # {})
    /\ \A k \in 1..(MaxFrames - 1) :
         (lastOp = "animate" /\ frame.n = k /\ mounted /\ isPlaying)
           ~> (frame.n > k \/ ~mounted \/ ~isPlaying)

\* a second frame has run while playing and has left a callback pending
C21_TickedAgain ==
    /\ lastOp = "animate"
    /\ frame.n = 2
    /\ mounted
    /\ isPlaying
    /\ \E c \in rafQueue : c.id = requestRef

\* C22: the view transform is changed only by the wheel handler (the canvas
\* has no pointer-drag handler and no pan): every other step, a frame,
\* clear(), the export, play/pause, a parameter edit, the effects of a render
\* and a resize of the surface, leaves scale as it was
C22_ScaleOnlyByWheel ==
    [][lastOp' # "handleWheel" => scale' = scale]_vars

\* C23: the angle is written only by the frame callback and lastPoint only
\* by the frame callback and clear(): every other step (parameter and shape
\* edits, wheel events, a resize, the export, play/pause, the effects of a
\* render, the unmount) leaves both as they were, and no step decreases the
\* angle
C23_TraceStateOwnedByLoop ==
    [][/\ lastOp' # "animate" => angleRef' = angleRef
       /\ lastOp' \notin {"animate"} \cup ClearOps => lastPointRef' = lastPointRef
       /\ angleRef' >= angleRef]_vars

\* the guide was changed to another shape after a frame had advanced the
\* angle and stored a point
C23_EditAfterFrames ==
    /\ lastOp = "handleShapeTypeChange"
    /\ frame.n >= 1
    /\ angleRef = frame.after
    /\ angleRef > 0
    /\ lastPointRef # Null

\* C24: the trace and the overlay stay aligned: every segment on the trace
\* canvas was drawn under the transform (translation and scale) of the
\* overlay as the latest frame drew it
C24_TraceAlignedWithOverlay ==
    \A i \in SegmentsOf(trace.ink) :
        \A j \in 1..Len(overlay) : trace.ink[i].xf = overlay[j].xf

\* C25: for a square guide, sharp or rounded, the radius R that the pen
\* formula of calculatePoint uses is half the edge length
C25_SquareRadiusHalfEdge ==
    LET halfEdge == params.fixedShape.params.edgeLength * 50
    IN lastOp = "calculatePoint" /\ params.fixedShape.type = "square" =>
         /\ getFixedShapeRadius(params.fixedShape) = halfEdge
         /\ lastPointRef = <<PenPoint(BoundaryPoint(params.fixedShape, angleRef), halfEdge,
                                      params.movingShape.params.radius,
                                      params.penDistance, angleRef)>>

\* a point on the outline of the rounded square, to within tol hundredths of
\* a pixel: on one of the four straight stretches, or on the quarter circle
\* of radius cornerRadius around the corner centre of its quadrant
OnRoundedSquare(pt, sp, tol) ==
    LET halfEdge == sp.edgeLength * 50
        radius == sp.cornerRadius * 100
        inner == halfEdge - radius
        ax == Abs(pt.x) \div TrigScale
        ay == Abs(pt.y) \div TrigScale
        dx == ax - inner
        dy == ay - inner
    IN \/ Abs(ax - halfEdge) <= tol /\ ay <= inner + tol
       \/ Abs(ay - halfEdge) <= tol /\ ax <= inner + tol
       \/ /\ dx >= 0 - tol
          /\ dy >= 0 - tol
          /\ dx <= radius + tol
          /\ dy <= radius + tol
          /\ Abs(dx * dx + dy * dy - radius * radius) <= 2 * radius * tol + tol * tol

\* C26: for a rounded square every boundary point calculatePoint uses lies on
\* the outline of the rounded square: on a straight edge at distance halfEdge
\* from an axis, or on the corner arc of its quadrant
C26_RoundedSquareOnOutline ==
    lastOp = "calculatePoint" /\ params.fixedShape.type = "square"
      /\ params.fixedShape.params.cornerRadius > 0 =>
        OnRoundedSquare(BoundaryPoint(params.fixedShape, angleRef),
                        params.fixedShape.params, 5)

\* a colour string '#rrggbb': a hash and six hexadecimal digits, each channel
\* in 0..255
ValidColor(c) ==
    /\ Len(c) = 7
    /\ c[1] = "#"
    /\ \A k \in 2..7 : \E d \in 1..16 : HexDigits[d] = c[k]

\* every channel of colour c lies between the channels of two stops
BetweenStops(c, stop1, stop2) ==
    \A from \in {1, 3, 5} :
        LET c1 == ParseChannel(stop1.color, from)
            c2 == ParseChannel(stop2.color, from)
            v == ParseChannel(c, from)
        IN (c1 <= v /\ v <= c2) \/ (c2 <= v /\ v <= c1)

\* C27: for a gradient of two or more stops and a progress before the first
\* stop or after the last, the resolver returns a valid colour '#rrggbb' taken
\* from the nearest boundary pair: between the first two stops when progress
\* is before the first stop, between the last two when it is after the last
C27_FallbackToBoundaryPair ==
    LET colors == params.penColor.value.colors
        n == Len(colors)
        step == TwoPi \div 8
        progress(i) ==
            ColorProgress(InterpolatedAngle(angleRef - step, step, i, Len(segs)))
    IN lastOp = "strokeFrame" /\ n >= 2 =>
         \A i \in 1..Len(segs) :
             /\ progress(i) < colors[1].position =>
                   /\ ValidColor(segs[i].color)
                   /\ BetweenStops(segs[i].color, colors[1], colors[2])
             /\ progress(i) > colors[n].position =>
                   /\ ValidColor(segs[i].color)
                   /\ BetweenStops(segs[i].color, colors[n - 1], colors[n])

\* C28: started from DEFAULT_PARAMS, playing, with no input, every frame
\* callback runs to its end without a runtime error and leaves the next frame
\* requested
C28_DefaultFramesRunClean ==
    /\ lastOp # "animateThrew"
    /\ lastOp = "animate" => \E c \in rafQueue : c.id = requestRef

\* C29: at every moment at most one frame callback is pending, and it is the
\* one requestRef names: neither a frame requesting its successor nor any
\* sequence of play/pause toggles, parameter edits, zoom events and effect
\* runs leaves two requested callbacks alive
C29_OnePendingFrame ==
    /\ Cardinality(rafQueue) <= 1
    /\ \A c \in rafQueue : c.id = requestRef

\* the effects of a render after a zoom replaced a pending callback, frames
\* having run, by a newly requested one
C29_LoopRestarted ==
    /\ lastOp = "commitEffects"
    /\ frame.n >= 1
    /\ committed.scale # initialScale(params, size)
    /\ teardownMark > 1
    /\ requestRef = teardownMark
    /\ Cardinality(rafQueue) = 1

\* C30: for every guide shape and every angle, the pen marker drawMovingCircle
\* puts on the overlay is at the pen point calculatePoint gives the trace at
\* that angle
C30_MarkerAtPenPoint ==
    lastOp = "calculatePoint" =>
      \A i \in 1..3 :
          LET ink == drawMovingCircle(params, angleRef, BaseXf(size))[i]
          IN ink.kind = "penMarker" => ink.at = calculatePoint(params, angleRef)

====
